---- MODULE Spec2Model ----
(***************************************************************************)
(* Model of the Python bindings of Magnum's builtin shaders                *)
(* (src/python/magnum/shaders.cpp): the Phong shader's constructor, its    *)
(* read-only and write-only properties with their guards, and the 2D/3D    *)
(* vertex color shaders.  The native shader objects are kept as records    *)
(* of the values the bindings hand to them.                                *)
(***************************************************************************)
EXTENDS Integers, FiniteSets, Sequences, TLC

(***************************************************************************)
(* Bounds of the model.                                                    *)
(***************************************************************************)
\* Largest light count a shader is constructed with.
MaxLights == 2
\* Number of distinct values handed to a value-carrying setter.
MaxValue == 2

Values == 1..MaxValue

(***************************************************************************)
(* Shaders::Phong::Flag, an enum over UnsignedByte, as exported by the     *)
(* Flags enum of the bindings.                                             *)
(***************************************************************************)
AmbientTexture == 1
DiffuseTexture == 2
SpecularTexture == 4
NormalTexture == 16
AlphaMask == 8
VertexColor == 32
None == 0

ExportedFlags ==
    {AmbientTexture, DiffuseTexture, SpecularTexture, NormalTexture,
     AlphaMask, VertexColor, None}

RECURSIVE BitAnd(_, _)
BitAnd(a, b) ==
    IF a = 0 \/ b = 0 THEN 0
    ELSE (a % 2) * (b % 2) + 2 * BitAnd(a \div 2, b \div 2)

RECURSIVE BitOr(_, _)
BitOr(a, b) ==
    IF a = 0 THEN b
    ELSE IF b = 0 THEN a
    ELSE (IF a % 2 = 1 \/ b % 2 = 1 THEN 1 ELSE 0)
         + 2 * BitOr(a \div 2, b \div 2)

\* The C++ conversion to UnsignedByte keeps the low eight bits.
UnsignedByte(x) == x % 256

\* corrade::enumOperators: a | b on two Flags values.
FlagOr(a, b) == UnsignedByte(BitOr(a, b))

RECURSIVE OrAll(_)
OrAll(S) ==
    IF S = {} THEN None
    ELSE LET f == CHOOSE x \in S : TRUE IN FlagOr(f, OrAll(S \ {f}))

\* Every flag set a caller composes from the exported values with |.
ExportedFlagSets == {OrAll(S) : S \in SUBSET ExportedFlags}

\* Two flag sets, one with and one without the alpha mask bit.
SampleFlagSets == {AlphaMask, FlagOr(AmbientTexture, DiffuseTexture)}

(***************************************************************************)
(* Integers wider than 32 bits (a Python int, a std::size_t) are kept as   *)
(* two limbs: the value is hi * 2^32 + lo with lo in 0 .. 2^32 - 1.        *)
(***************************************************************************)
Wide(hi, lo) == [hi |-> hi, lo |-> lo]

\* Whether the value is one an UnsignedInt holds.
FitsUnsignedInt(w) == w.hi = 0

\* The C++ conversion to UnsignedInt keeps the low 32 bits.
UnsignedInt(w) == w.lo

\* The light_count values a caller passes: small ones, negative ones and
\* ones past the range of UnsignedInt.
LightCountInputs == {Wide(h, l) : h \in {-1, 0, 1}, l \in 0..MaxLights}

\* A light count that pybind11 accepts, and one that it does not.
SampleLightCounts == {Wide(0, MaxLights), Wide(-1, 1)}

\* A std::vector handed to a light setter: its size() and a tag that
\* stands for its items.
Vector(size, items) == [size |-> size, items |-> items]

VectorInputs ==
    {Vector(Wide(h, l), d) : h \in {0, 1}, l \in 0..(MaxLights + 1), d \in Values}

\* Vectors short enough for their size to fit an UnsignedInt.
SampleVectors == {Vector(Wide(0, l), MaxValue) : l \in 0..(MaxLights + 1)}

(***************************************************************************)
(* The native Shaders::Phong object behind a handle.                       *)
(***************************************************************************)
UnguardedUniforms ==
    {"ambientColor", "diffuseColor", "specularColor", "shininess",
     "transformationMatrix", "normalMatrix", "projectionMatrix"}

\* Shaders::Phong{flags, lightCount}: uniforms at the native defaults (0).
NativePhong(flags, lightCount) ==
    [alive |-> TRUE, flags |-> flags, lightCount |-> lightCount,
     uniforms |-> [u \in UnguardedUniforms |-> 0],
     alphaMask |-> 0,
     lightPositions |-> Vector(Wide(0, lightCount), 0),
     lightColors |-> Vector(Wide(0, lightCount), 0)]

\* No Phong handle exists.
NoPhong == [NativePhong(None, 0) EXCEPT !.alive = FALSE]

\* No argument: an omitted keyword, or a call that takes none.
Omitted == {}
Given(x) == {x}
ArgOr(arg, default) == IF arg = Omitted THEN default ELSE CHOOSE x \in arg : TRUE

VARIABLES
    phong,        \* the Phong handle and the native object it owns
    ctorArgs,     \* the arguments the Phong handle was constructed with
    vertexColor,  \* dimensions -> the VertexColor2D / VertexColor3D handle
    last          \* the last call made and how it ended

vars == <<phong, ctorArgs, vertexColor, last>>

\* A finished call: the property or class called, its outcome, and the
\* native setter it reached.
Call(op, status, native) ==
    [op |-> op, status |-> status, native |-> native,
     light_count |-> Omitted, value |-> 0, size |-> Wide(0, 0),
     expected |-> 0, actual |-> 0, result |-> 0, again |-> FALSE]

Dimensions == {2, 3}

NoVertexColor == [alive |-> FALSE, transformationProjectionMatrix |-> 0]

Init ==
    /\ phong = NoPhong
    /\ ctorArgs = [flags |-> Omitted, light_count |-> Omitted]
    /\ vertexColor = [d \in Dimensions |-> NoVertexColor]
    /\ last = Call("import", "ok", "none")

(***************************************************************************)
(* Phong(flags = Flags.NONE, light_count = 1)                              *)
(***************************************************************************)
\* LightCountAccepted that also refuses a light count of zero.
LightCountAcceptedIfPositive(k) == FitsUnsignedInt(k) /\ k.lo > 0

\* pybind11's conversion of the light_count argument to UnsignedInt: a
\* value outside the type's range does not match the signature.
LightCountAccepted(k) == FitsUnsignedInt(k)

\* PhongInit that does not forward light_count to the native constructor.
PhongInitDropsLightCount(flags, light_count) ==
    LET F == ArgOr(flags, None)
        k == ArgOr(light_count, Wide(0, 1))
    IN  IF FitsUnsignedInt(k)
        THEN [self |-> NativePhong(F, 1), status |-> "ok"]
        ELSE [self |-> NoPhong, status |-> "TypeError"]

\* PhongInit whose light_count defaults to 0.
PhongInitDefaultsToZero(flags, light_count) ==
    LET F == ArgOr(flags, None)
        k == ArgOr(light_count, Wide(0, 0))
    IN  IF FitsUnsignedInt(k)
        THEN [self |-> NativePhong(F, UnsignedInt(k)), status |-> "ok"]
        ELSE [self |-> NoPhong, status |-> "TypeError"]

PhongInit(flags, light_count) ==
    LET F == ArgOr(flags, None)
        k == ArgOr(light_count, Wide(0, 1))
    IN  IF LightCountAccepted(k)
        THEN [self |-> NativePhong(F, UnsignedInt(k)), status |-> "ok"]
        ELSE [self |-> NoPhong, status |-> "TypeError"]

Construct(Fs, Ks) ==
    \E flags \in {Omitted} \cup {Given(F) : F \in Fs},
       light_count \in {Omitted} \cup {Given(k) : k \in Ks} :
        LET r == PhongInit(flags, light_count) IN
        /\ phong' = IF r.status = "ok" THEN r.self ELSE phong
        /\ ctorArgs' = IF r.status = "ok"
                       THEN [flags |-> flags, light_count |-> light_count]
                       ELSE ctorArgs
        /\ last' = [Call("Phong", r.status, "none")
                        EXCEPT !.light_count = light_count]
        /\ UNCHANGED vertexColor

(***************************************************************************)
(* The read-only properties.                                               *)
(***************************************************************************)
\* FlagsGetter that converts through a type too narrow for the flags.
FlagsGetterNarrow(self) == self.flags % 16

FlagsGetter(self) == UnsignedByte(self.flags)

LightCountGetter(self) == self.lightCount

GetFlags ==
    /\ phong.alive
    /\ last' = [Call("flags", "ok", "none") EXCEPT !.result = FlagsGetter(phong)]
    /\ UNCHANGED <<phong, ctorArgs, vertexColor>>

GetLightCount ==
    /\ phong.alive
    /\ last' = [Call("light_count", "ok", "none")
                    EXCEPT !.result = LightCountGetter(phong)]
    /\ UNCHANGED <<phong, ctorArgs, vertexColor>>

(***************************************************************************)
(* The write-only properties that forward straight to the native setter.   *)
(***************************************************************************)
NativeSetter ==
    [ambientColor |-> "setAmbientColor", diffuseColor |-> "setDiffuseColor",
     specularColor |-> "setSpecularColor", shininess |-> "setShininess",
     transformationMatrix |-> "setTransformationMatrix",
     normalMatrix |-> "setNormalMatrix",
     projectionMatrix |-> "setProjectionMatrix"]

\* A setter's outcome: the native object after it, the Python error it
\* raised ("ok": none) and the native setter it reached.
Outcome(self, status, native) ==
    [self |-> self, status |-> status, native |-> native,
     expected |-> 0, actual |-> 0]

\* Shaders::Phong::set<Uniform>(v)
setUniform(self, u, v) == [self EXCEPT !.uniforms[u] = v]

ForwardingSetter(self, u, v) ==
    Outcome(setUniform(self, u, v), "ok", NativeSetter[u])

SetForwarded(op, u, Vs) ==
    /\ phong.alive
    /\ \E v \in Vs :
        LET r == ForwardingSetter(phong, u, v) IN
        /\ phong' = r.self
        /\ last' = [Call(op, r.status, r.native) EXCEPT !.value = v]
    /\ UNCHANGED <<ctorArgs, vertexColor>>

SetAmbientColor(Vs) == SetForwarded("ambient_color", "ambientColor", Vs)

SetDiffuseColor(Vs) == SetForwarded("diffuse_color", "diffuseColor", Vs)

SetSpecularColor(Vs) == SetForwarded("specular_color", "specularColor", Vs)

SetShininess(Vs) == SetForwarded("shininess", "shininess", Vs)

SetTransformationMatrix(Vs) ==
    SetForwarded("transformation_matrix", "transformationMatrix", Vs)

SetNormalMatrix(Vs) == SetForwarded("normal_matrix", "normalMatrix", Vs)

SetProjectionMatrix(Vs) ==
    SetForwarded("projection_matrix", "projectionMatrix", Vs)

(***************************************************************************)
(* alpha_mask: refused unless the shader was created with Flag::AlphaMask. *)
(***************************************************************************)
\* setAlphaMask that adds the mask to the stored one.
setAlphaMaskAccumulating(self, mask) ==
    [self EXCEPT !.alphaMask = (@ + mask) % (MaxValue + 1)]

\* Shaders::Phong::setAlphaMask(mask)
setAlphaMask(self, mask) == [self EXCEPT !.alphaMask = mask]

\* AlphaMaskSetter that compares the flags with AlphaMask instead of
\* testing its bit.
AlphaMaskSetterExactMatch(self, mask) ==
    IF self.flags # AlphaMask
    THEN Outcome(self, "AttributeError", "none")
    ELSE Outcome(setAlphaMask(self, mask), "ok", "setAlphaMask")

\* AlphaMaskSetter that turns the alpha mask on instead of refusing.
AlphaMaskSetterEnablesFlag(self, mask) ==
    Outcome([setAlphaMask(self, mask) EXCEPT !.flags = FlagOr(@, AlphaMask)],
            "ok", "setAlphaMask")

AlphaMaskSetter(self, mask) ==
    IF BitAnd(self.flags, AlphaMask) = 0
    THEN Outcome(self, "AttributeError", "none")
    ELSE Outcome(setAlphaMask(self, mask), "ok", "setAlphaMask")

SetAlphaMask(Vs) ==
    /\ phong.alive
    /\ \E mask \in Vs :
        LET r == AlphaMaskSetter(phong, mask) IN
        /\ phong' = r.self
        /\ last' = [Call("alpha_mask", r.status, r.native)
                        EXCEPT !.value = mask,
                               !.again = /\ last.op = "alpha_mask"
                                         /\ last.status = "ok"
                                         /\ last.value = mask]
    /\ UNCHANGED <<ctorArgs, vertexColor>>

(***************************************************************************)
(* light_positions and light_colors: refused unless the vector holds       *)
(* light_count items.                                                      *)
(***************************************************************************)
\* positions.size() != self.lightCount(), compared as std::size_t.
SizeDiffers(size, lightCount) == size # Wide(0, lightCount)

\* PyErr_Format(PyExc_ValueError, "expected %u items but got %u", ...)
SizeMismatch(self, size) ==
    [Outcome(self, "ValueError", "none")
        EXCEPT !.expected = self.lightCount, !.actual = UnsignedInt(size)]

\* Shaders::Phong::setLightPositions(positions)
setLightPositions(self, positions) == [self EXCEPT !.lightPositions = positions]

\* Shaders::Phong::setLightColors(colors)
setLightColors(self, colors) == [self EXCEPT !.lightColors = colors]

LightPositionsSetter(self, positions) ==
    IF SizeDiffers(positions.size, self.lightCount)
    THEN SizeMismatch(self, positions.size)
    ELSE Outcome(setLightPositions(self, positions), "ok", "setLightPositions")

\* LightColorsSetter that forwards before it checks the size.
LightColorsSetterWriteFirst(self, colors) ==
    IF SizeDiffers(colors.size, self.lightCount)
    THEN SizeMismatch(setLightColors(self, colors), colors.size)
    ELSE Outcome(setLightColors(self, colors), "ok", "setLightColors")

LightColorsSetter(self, colors) ==
    IF SizeDiffers(colors.size, self.lightCount)
    THEN SizeMismatch(self, colors.size)
    ELSE Outcome(setLightColors(self, colors), "ok", "setLightColors")

SetLightPositions(Vecs) ==
    /\ phong.alive
    /\ \E positions \in Vecs :
        LET r == LightPositionsSetter(phong, positions) IN
        /\ phong' = r.self
        /\ last' = [Call("light_positions", r.status, r.native)
                        EXCEPT !.value = positions.items,
                               !.size = positions.size,
                               !.expected = r.expected, !.actual = r.actual]
    /\ UNCHANGED <<ctorArgs, vertexColor>>

SetLightColors(Vecs) ==
    /\ phong.alive
    /\ \E colors \in Vecs :
        LET r == LightColorsSetter(phong, colors) IN
        /\ phong' = r.self
        /\ last' = [Call("light_colors", r.status, r.native)
                        EXCEPT !.value = colors.items,
                               !.size = colors.size,
                               !.expected = r.expected, !.actual = r.actual]
    /\ UNCHANGED <<ctorArgs, vertexColor>>

(***************************************************************************)
(* VertexColor2D and VertexColor3D.                                        *)
(***************************************************************************)
\* Shaders::VertexColor<dimensions>{}
NativeVertexColor == [alive |-> TRUE, transformationProjectionMatrix |-> 0]

\* setTransformationProjectionMatrix on a uniform both shaders share.
setTransformationProjectionMatrixShared(shaders, d, matrix) ==
    [e \in Dimensions |->
        [shaders[e] EXCEPT !.transformationProjectionMatrix = matrix]]

\* Shaders::VertexColor<dimensions>::setTransformationProjectionMatrix
setTransformationProjectionMatrix(shaders, d, matrix) ==
    [shaders EXCEPT ![d].transformationProjectionMatrix = matrix]

ConstructVertexColor ==
    \E d \in Dimensions :
        /\ vertexColor' = [vertexColor EXCEPT ![d] = NativeVertexColor]
        /\ last' = [Call("VertexColor", "ok", "none") EXCEPT !.value = d]
        /\ UNCHANGED <<phong, ctorArgs>>

SetTransformationProjectionMatrix(Vs) ==
    \E d \in Dimensions, matrix \in Vs :
        /\ vertexColor[d].alive
        /\ vertexColor' = setTransformationProjectionMatrix(vertexColor, d, matrix)
        /\ last' = [Call("transformation_projection_matrix", "ok",
                         "setTransformationProjectionMatrix")
                        EXCEPT !.value = matrix, !.result = d]
        /\ UNCHANGED <<phong, ctorArgs>>

(***************************************************************************)
(* Specifications.                                                         *)
(***************************************************************************)
\* Construction from every exported flag combination, and the getters.
NextCtor ==
    \/ Construct(ExportedFlagSets, LightCountInputs)
    \/ GetFlags
    \/ GetLightCount

SpecCtor == Init /\ [][NextCtor]_vars

\* The alpha mask guard, over every exported flag combination.
NextAlpha ==
    \/ Construct(ExportedFlagSets, {Wide(0, 1)})
    \/ SetAlphaMask(Values)
    \/ GetFlags

SpecAlpha == Init /\ [][NextAlpha]_vars

\* The light setters, over vectors of every size.
NextLights ==
    \/ Construct(SampleFlagSets, LightCountInputs)
    \/ SetLightPositions(VectorInputs)
    \/ SetLightColors(VectorInputs)
    \/ GetLightCount

SpecLights == Init /\ [][NextLights]_vars

\* The two vertex color shaders, beside a Phong shader.
NextVertexColor ==
    \/ ConstructVertexColor
    \/ SetTransformationProjectionMatrix(Values)
    \/ Construct(SampleFlagSets, SampleLightCounts)
    \/ SetShininess(Values)

SpecVertexColor == Init /\ [][NextVertexColor]_vars

\* Every operation on a Phong handle.
Next ==
    \/ Construct(SampleFlagSets, SampleLightCounts)
    \/ GetFlags
    \/ GetLightCount
    \/ SetAmbientColor({MaxValue})
    \/ SetDiffuseColor({MaxValue})
    \/ SetSpecularColor({MaxValue})
    \/ SetShininess({MaxValue})
    \/ SetAlphaMask({MaxValue})
    \/ SetTransformationMatrix({MaxValue})
    \/ SetNormalMatrix({MaxValue})
    \/ SetProjectionMatrix({MaxValue})
    \/ SetLightPositions(SampleVectors)
    \/ SetLightColors(SampleVectors)

Spec == Init /\ [][Next]_vars

(***************************************************************************)
(* Properties.                                                             *)
(***************************************************************************)
\* Whether the single-bit flag f is set in the flag set F.
HasFlag(F, f) == (F \div f) % 2 = 1

\* The arguments the Phong handle was constructed with, defaults applied.
GivenFlags == ArgOr(ctorArgs.flags, None)
GivenLightCount == ArgOr(ctorArgs.light_count, Wide(0, 1))

LightSetters == {"light_positions", "light_colors"}

\* The vector the light setter last called has stored in the native shader.
StoredLights ==
    IF last.op = "light_positions" THEN phong.lightPositions
    ELSE phong.lightColors

\* C1: on a Phong shader with lightCount = n > 0, a light setter given a
\* vector of m items fails, when m differs from n, with a ValueError that
\* reports n as expected and m as the actual count; when m = n it raises
\* nothing and forwards the vector to the native setter.
C1_SizeMismatchReported ==
    (phong.alive /\ phong.lightCount > 0 /\ last.op \in LightSetters) =>
        IF last.size # Wide(0, phong.lightCount)
        THEN /\ last.status = "ValueError"
             /\ last.native = "none"
             /\ last.expected = phong.lightCount
             /\ Wide(0, last.actual) = last.size
        ELSE /\ last.status = "ok"
             /\ last.native \in {"setLightPositions", "setLightColors"}
             /\ StoredLights = Vector(last.size, last.value)

\* The part of C1 that holds: the same, for vectors of fewer than 2^32
\* items.
LightSettersBelowTwoTo32 ==
    (phong.alive /\ phong.lightCount > 0 /\ last.op \in LightSetters
        /\ FitsUnsignedInt(last.size)) => C1_SizeMismatchReported

\* C2: alpha_mask fails with an AttributeError exactly when the flags given
\* at construction lack AlphaMask, whatever the other flags; with AlphaMask
\* the write succeeds and reaches the native setAlphaMask.
C2_AlphaMaskNeedsFlag ==
    (last.op = "alpha_mask") =>
        IF HasFlag(GivenFlags, AlphaMask)
        THEN /\ last.status = "ok"
             /\ last.native = "setAlphaMask"
             /\ phong.alphaMask = last.value
        ELSE /\ last.status = "AttributeError"
             /\ last.native = "none"

C2_Witness ==
    /\ last.op = "alpha_mask"
    /\ last.status = "AttributeError"
    /\ GivenFlags = FlagOr(FlagOr(AmbientTexture, NormalTexture), VertexColor)

\* C3: a guarded setter that fails (alpha_mask without the flag, a light
\* setter with a vector of the wrong size) reaches no native setter and
\* leaves the shader as it was.
C3_FailedSetterChangesNothing ==
    [][(last'.status \in {"AttributeError", "ValueError"}) =>
            /\ last'.native = "none"
            /\ phong' = phong
            /\ ctorArgs' = ctorArgs
            /\ vertexColor' = vertexColor]_vars

C3_Witness ==
    /\ last.op = "light_colors"
    /\ last.status = "ValueError"
    /\ phong.lightColors.items # 0
    /\ phong.lightPositions.items # 0
    /\ phong.uniforms["diffuseColor"] # 0

\* C4: a Phong shader constructed with a flag set F composed from the
\* exported values returns exactly F from its flags property.
C4_FlagsReadBack ==
    (last.op = "flags" /\ ctorArgs.flags # Omitted) =>
        /\ GivenFlags \in ExportedFlagSets
        /\ last.result = GivenFlags

C4_Witness ==
    /\ last.op = "flags"
    /\ ctorArgs.flags = Given(FlagOr(NormalTexture, VertexColor))
    /\ last.result = NormalTexture + VertexColor

C6_LightCountReadBack ==
    (last.op = "light_count" /\ ctorArgs.light_count # Omitted) =>
        Wide(0, last.result) = GivenLightCount

C6_Witness ==
    /\ last.op = "light_count"
    /\ ctorArgs.light_count = Given(Wide(0, MaxLights))
    /\ last.result = MaxLights

\* C7: an omitted flags argument reads back as NONE and an omitted
\* light_count as 1, each whether or not the other argument is given, and
\* the argument that is given reads back as given.
C7_Defaults ==
    /\ (last.op = "flags") =>
            last.result = (IF ctorArgs.flags = Omitted THEN None ELSE GivenFlags)
    /\ (last.op = "light_count") =>
            last.result = (IF ctorArgs.light_count = Omitted THEN 1
                           ELSE GivenLightCount.lo)

C7_Witness ==
    /\ last.op = "light_count"
    /\ ctorArgs.light_count = Omitted
    /\ ctorArgs.flags # Omitted
    /\ last.result = 1

\* C8: a successful alpha_mask write of the value the write before it
\* stored changes nothing.
C8_AlphaMaskIdempotent ==
    [][(last'.op = "alpha_mask" /\ last'.status = "ok" /\ last'.again) =>
            /\ phong' = phong
            /\ ctorArgs' = ctorArgs
            /\ vertexColor' = vertexColor]_vars

C8_Witness ==
    /\ last.op = "alpha_mask"
    /\ last.status = "ok"
    /\ last.again
    /\ phong.alphaMask = last.value

\* C9: a transformation_projection_matrix write on one vertex color shader
\* succeeds, stores the matrix in that shader and leaves the other shader,
\* and the Phong shader, as they were.
C9_VertexColorIndependent ==
    [][(last'.op = "transformation_projection_matrix") =>
            /\ last'.status = "ok"
            /\ vertexColor'[last'.result].transformationProjectionMatrix
                    = last'.value
            /\ \A d \in Dimensions \ {last'.result} :
                    vertexColor'[d] = vertexColor[d]
            /\ phong' = phong]_vars

C9_Witness ==
    /\ last.op = "transformation_projection_matrix"
    /\ vertexColor[2].alive
    /\ vertexColor[3].alive
    /\ vertexColor[2].transformationProjectionMatrix # 0
    /\ vertexColor[3].transformationProjectionMatrix # 0
    /\ vertexColor[2].transformationProjectionMatrix
            # vertexColor[3].transformationProjectionMatrix

\* C10: whatever was written to a Phong handle, its flags and light_count
\* read as given at construction.
C10_FlagsAndLightCountFixed ==
    phong.alive =>
        /\ FlagsGetter(phong) = GivenFlags
        /\ Wide(0, LightCountGetter(phong)) = GivenLightCount

C10_Witness ==
    /\ last.op = "alpha_mask"
    /\ last.status = "AttributeError"
    /\ phong.uniforms["shininess"] # 0
    /\ phong.lightPositions.items # 0
    /\ FlagsGetter(phong) = FlagOr(AmbientTexture, DiffuseTexture)
    /\ LightCountGetter(phong) = MaxLights

====
